---- MODULE Spec2Model ----
(***************************************************************************)
(* pikepdf outlines (src/src/pikepdf/models/outlines.py): OutlineItem,     *)
(* Outline._load / _save and the scoped edit session, over a document      *)
(* modelled as a heap of dictionaries.                                     *)
(*                                                                         *)
(* A dictionary is a function from the names of the fields it holds to     *)
(* their values; the document `doc` maps object identities (objgen) to     *)
(* dictionaries.  OutlineItem instances live in the heap `items` (a        *)
(* sequence, an item's identity is its index), so that the same Python     *)
(* object can occur in several lists and its `obj` handle can be           *)
(* reassigned, as in the source.                                           *)
(***************************************************************************)
EXTENDS Integers, Sequences, FiniteSets, TLC

\* ------------------------------------------------------------------ bounds
MaxNodes == 3
MaxEdits == 2
MaxSaves == 2
MaxOutlines == 2

\* ------------------------------------------------------------- dictionaries
EmptyDict == [f \in {} |-> 0]
Has(o, f) == f \in DOMAIN o
Put(o, f, v) == [g \in (DOMAIN o) \cup {f} |-> IF g = f THEN v ELSE o[g]]
Del(o, f) == [g \in (DOMAIN o) \ {f} |-> o[g]]

\* Python None for an object reference, and for a destination or an action.
NoObj == 0 - 1
None == <<>>
\* The identity of the outline container, pdf.Root.Outlines.
Outlines == 0
NoErr == "ok"

\* obj.get(name) for a reference-valued field
GetRef(o, f) == IF Has(o, f) THEN o[f] ELSE NoObj
\* obj.get(name) for Dest and A
GetVal(o, f) == IF Has(o, f) THEN o[f] ELSE None

\* pdf.make_indirect: the next unused object identity
make_indirect(d) == IF DOMAIN d = {} THEN 1
                    ELSE 1 + (CHOOSE m \in DOMAIN d : \A n \in DOMAIN d : n <= m)

\* Truth value of a pikepdf object reference: None and an empty dictionary
\* are false.
Truthy(d, ref) == ref # NoObj /\ ref \in DOMAIN d /\ DOMAIN d[ref] # {}

\* -------------------------------------------------------------- destinations
\* A destination or action value is a sequence of integers:
\*   <<>>                      None
\*   <<IntTag, n>>             a Python int, an unresolved page number
\*   <<ArrayTag, n, mode, ..>> the Array make_page_destination builds
\*   <<ObjTag, k>>             any other pikepdf object (named destination, ...)
\*   <<ActTag, k>>             an action dictionary
IntTag == 0
ArrayTag == 1
ObjTag == 2
ActTag == 3
IsInt(v) == Len(v) > 0 /\ v[1] = IntTag

XYZ == 1
Fit == 2
FitH == 3
FitV == 4
FitR == 5
FitB == 6
FitBH == 7
FitBV == 8
PageLocation == {XYZ, Fit, FitH, FitV, FitR, FitB, FitBH, FitBV}
\* page_location: 0 stands for None (or ''), a member of PageLocation for the
\* enum or its name, any other number for a string that names no location.
NoLocation == 0

PAGE_LOCATION_ARGS(loc) ==
    CASE loc = XYZ -> <<"left", "top", "zoom">>
      [] loc = FitH -> <<"top">>
      [] loc = FitV -> <<"left">>
      [] loc = FitR -> <<"left", "bottom", "right", "top">>
      [] loc = FitBH -> <<"top">>
      [] loc = FitBV -> <<"left">>
      [] OTHER -> <<>>

ALL_PAGE_LOCATION_KWARGS == {"left", "top", "zoom", "bottom", "right"}

\* kwargs.get(k, 0)
KwGet(kwargs, k) == IF k \in DOMAIN kwargs THEN kwargs[k] ELSE 0

\* [err, value]: ValueError for a string that names no PageLocation.
make_page_destination(page_num, page_location, kwargs) ==
    IF page_location = NoLocation
    THEN [err |-> NoErr, value |-> <<ArrayTag, page_num, Fit>>]
    ELSE IF page_location \notin PageLocation
    THEN [err |-> "ValueError", value |-> None]
    ELSE LET names == PAGE_LOCATION_ARGS(page_location)
         IN [err |-> NoErr,
             value |-> <<ArrayTag, page_num, page_location>>
                       \o [k \in 1..Len(names) |-> KwGet(kwargs, names[k])]]

\* ---------------------------------------------------------------- OutlineItem
\* OutlineItem.__init__ with valid keyword arguments
OutlineItem(title, destination, page_location, action, obj, kwargs) ==
    [title |-> title, destination |-> destination,
     page_location |-> page_location, page_location_kwargs |-> kwargs,
     action |-> action, obj |-> obj, is_closed |-> FALSE, children |-> <<>>]

\* str(obj.Title): a String gives its text, a Name its text after a slash.
TitleStr(t) == IF t.type = "Name" THEN "/" \o t.text ELSE t.text
\* obj.Title = title stores a String.
TitleObj(s) == [type |-> "String", text |-> s]

from_dictionary_object(o, ref) ==
    OutlineItem(TitleStr(o.Title), GetVal(o, "Dest"), NoLocation,
                GetVal(o, "A"), ref, EmptyDict)

\* Everything a load or a save threads through its recursion: the document,
\* the item heap, visited_objs, the exception in flight (NoErr: none) and the
\* list of writes a save made, in order.
Walk(d, its) == [doc |-> d, items |-> its, visited |-> {}, err |-> NoErr,
                 log |-> <<>>]

\* Lines 159-162: the object to_dictionary_object writes to, and what that
\* object holds before the write.
Target(s, it, create_new) ==
    IF create_new \/ it.obj = NoObj THEN make_indirect(s.doc) ELSE it.obj
Existing(s, it, create_new) ==
    IF create_new \/ it.obj = NoObj THEN EmptyDict ELSE s.doc[it.obj]

\* Lines 165-171: [err, value], the destination once a page number is resolved.
Resolved(it) ==
    IF IsInt(it.destination)
    THEN make_page_destination(it.destination[2], it.page_location,
                               it.page_location_kwargs)
    ELSE [err |-> NoErr, value |-> it.destination]

\* Lines 172-178: Dest and A of the object, after its Title is set.
WriteTarget(o, it, made) ==
    IF it.destination # None
    THEN IF made.err # NoErr THEN o
         ELSE Del(Put(o, "Dest", made.value), "A")
    ELSE IF it.action # None
         THEN Del(Put(o, "A", it.action), "Dest")
         ELSE o

Written(s, i, obj, o, made) ==
    [s |-> [s EXCEPT !.doc = (obj :> o) @@ s.doc,
                     !.items[i].obj = obj,
                     !.items[i].destination = IF made.err = NoErr
                                              THEN made.value ELSE @,
                     !.err = made.err],
     obj |-> obj]

\* OutlineItem.to_dictionary_object: [s, obj]
to_dictionary_object(s, i, create_new) ==
    Written(s, i, Target(s, s.items[i], create_new),
            WriteTarget(Put(Existing(s, s.items[i], create_new), "Title",
                            TitleObj(s.items[i].title)),
                        s.items[i], Resolved(s.items[i])),
            Resolved(s.items[i]))

\* The end of _save_level_outline, after its loop (lines 259-269).
Unlinked(d, count, prev) ==
    IF count # 0 THEN [d EXCEPT ![prev] = Del(@, "Next")] ELSE d
Ends(o, count, prev, first) ==
    IF count # 0 THEN Put(Put(o, "First", first), "Last", prev)
    ELSE Del(Del(o, "First"), "Last")
SaveLevelEnd(s, parent, count, prev, first) ==
    [s EXCEPT !.doc = [Unlinked(s.doc, count, prev) EXCEPT
                          ![parent] = Put(Ends(@, count, prev, first),
                                          "Count", count)]]

\* Lines 240-249: out_obj is linked under parent, after prev.
LinkSibling(d, parent, out_obj, prev) ==
    IF prev # NoObj
    THEN [d EXCEPT ![out_obj] = Put(@, "Parent", parent),
                   ![prev] = Put(@, "Next", out_obj),
                   ![out_obj] = Put(@, "Prev", prev)]
    ELSE [d EXCEPT ![out_obj] = Del(Put(@, "Parent", parent), "Prev")]

\* Lines 231-238: the object the item is written to once its identity has
\* been looked up in visited_objs: [s, obj]
VisitOrCopy(cfg, r, item) ==
    IF r.s.err # NoErr THEN r
    ELSE IF r.obj \in r.s.visited
    THEN IF cfg.strict
         THEN [s |-> [r.s EXCEPT !.err = "OutlineStructureError"], obj |-> r.obj]
         ELSE to_dictionary_object(r.s, item, TRUE)
    ELSE [s |-> [r.s EXCEPT !.visited = @ \cup {r.obj}], obj |-> r.obj]

\* The Count of a closed item left as the level below set it.
ClosedCountKept(sub) == sub

\* Line 256: the Count of a closed item.
ClosedCount(sub) == 0 - sub

\* Lines 255-258: the item's Count and the running count, once the level
\* below the item is saved.
Counted(s, closed, out_obj) ==
    IF s.err = NoErr /\ closed
    THEN [s EXCEPT !.doc[out_obj] = Put(@, "Count", ClosedCount(@.Count))]
    ELSE s
Running(s, closed, out_obj, count) ==
    IF s.err # NoErr \/ closed THEN count + 1
    ELSE count + 1 + s.doc[out_obj].Count

\* The write the loop makes for the k-th item of the list at path, entered in
\* the save's log: the object it ends on and the one it first looked up.
Logged(s, path, k, item, tried, out_obj) ==
    [s EXCEPT !.log = Append(@, [path |-> Append(path, k), item |-> item,
                                  obj |-> out_obj, tried |-> tried])]

\* Outline._save_level_outline, its for loop from the k-th item on.  path is
\* the position of the list's owner in the item tree (<<>> for the root).
RECURSIVE save_level_outline(_, _, _, _, _, _, _, _, _, _)
RECURSIVE SaveBelow(_, _, _, _, _, _, _, _, _, _, _)
RECURSIVE SaveNext(_, _, _, _, _, _, _, _, _, _, _)

save_level_outline(cfg, s, parent, outline_items, level, path, k, count, prev, first) ==
    IF s.err # NoErr THEN s
    ELSE IF k > Len(outline_items) THEN SaveLevelEnd(s, parent, count, prev, first)
    ELSE SaveBelow(cfg, parent, outline_items, level, path, k, count, prev, first,
                   to_dictionary_object(s, outline_items[k], FALSE).obj,
                   VisitOrCopy(cfg, to_dictionary_object(s, outline_items[k], FALSE),
                               outline_items[k]))

\* Lines 240-254: r is the item's object and the state once it is chosen.
SaveBelow(cfg, parent, outline_items, level, path, k, count, prev, first, tried, r) ==
    IF r.s.err # NoErr THEN r.s
    ELSE SaveNext(cfg, parent, outline_items, level, path, k, count, prev, first,
                  r.obj,
                  save_level_outline(
                      cfg,
                      Logged([r.s EXCEPT !.doc = LinkSibling(@, parent, r.obj, prev)],
                             path, k, outline_items[k], tried, r.obj),
                      r.obj,
                      IF level < cfg.max_depth
                      THEN r.s.items[outline_items[k]].children ELSE <<>>,
                      level + 1, Append(path, k), 1, 0, NoObj, NoObj))

\* Lines 255-258 and the next turn of the loop: s is the state once the level
\* below the item is saved.
SaveNext(cfg, parent, outline_items, level, path, k, count, prev, first, out_obj, s) ==
    IF s.err # NoErr THEN s
    ELSE save_level_outline(
             cfg, Counted(s, s.items[outline_items[k]].is_closed, out_obj),
             parent, outline_items, level, path, k + 1,
             Running(s, s.items[outline_items[k]].is_closed, out_obj, count),
             out_obj, IF prev = NoObj THEN out_obj ELSE first)

\* Outline._save for a loaded root: the container is created when absent.
save(cfg, d, its, rootList) ==
    LET d1 == IF Outlines \in DOMAIN d THEN d
              ELSE (Outlines :> [Type |-> "Outlines"]) @@ d
    IN save_level_outline(cfg, Walk(d1, its), Outlines, rootList, 0, <<>>,
                          1, 0, NoObj, NoObj)

\* Revisit with the list emptied: what was emitted before the repeated node is
\* lost.
RevisitDropsSiblings(cfg, s, outline_items) ==
    [s |-> IF cfg.strict THEN [s EXCEPT !.err = "OutlineStructureError"] ELSE s,
     list |-> <<>>]

\* Lines 277-282: the loop meets an object that is in visited_objs.
Revisit(cfg, s, outline_items) ==
    [s |-> IF cfg.strict THEN [s EXCEPT !.err = "OutlineStructureError"] ELSE s,
     list |-> outline_items]

\* Outline._load_level_outline from current_obj on: [s, list], list being
\* outline_items as the call leaves it.
RECURSIVE load_level_outline(_, _, _, _, _)
load_level_outline(cfg, s, current_obj, outline_items, level) ==
    IF ~Truthy(s.doc, current_obj) THEN [s |-> s, list |-> outline_items]
    ELSE IF current_obj \in s.visited THEN Revisit(cfg, s, outline_items)
    ELSE
    LET o == s.doc[current_obj]
        s1 == [s EXCEPT !.visited = @ \cup {current_obj},
                        !.items = Append(@, from_dictionary_object(o, current_obj))]
        item == Len(s1.items)
        first_child == GetRef(o, "First")
        descend == first_child # NoObj /\ level < cfg.max_depth
        r == IF descend
             THEN load_level_outline(cfg, s1, first_child, <<>>, level + 1)
             ELSE [s |-> s1, list |-> <<>>]
        closed == descend /\ Has(o, "Count") /\ o.Count < 0
        s2 == [r.s EXCEPT !.items[item].children = r.list,
                          !.items[item].is_closed = closed]
    IN IF r.s.err # NoErr
       THEN [s |-> [r.s EXCEPT !.items[item].children = r.list],
             list |-> outline_items]
       ELSE load_level_outline(cfg, s2, GetRef(o, "Next"),
                               Append(outline_items, item), level)

\* Outline._load: [s, list]; the list is what self._root is left holding.
load(cfg, d, its) ==
    IF Outlines \notin DOMAIN d THEN [s |-> Walk(d, its), list |-> <<>>]
    ELSE LET first_obj == GetRef(d[Outlines], "First")
         IN IF Truthy(d, first_obj)
            THEN load_level_outline(cfg, Walk(d, its), first_obj, <<>>, 0)
            ELSE [s |-> Walk(d, its), list |-> <<>>]

\* ------------------------------------------------------- the input documents
\* A well-formed outline of n nodes 1..n: p[i] < i is the parent of node i
\* (Outlines for a root node), siblings are in increasing order, kind[i]
\* says which of Dest and A node i holds, the nodes of closed that have
\* children carry a negative Count, ttype is the type of every Title.
Parents(n) == {p \in [1..n -> 0..n] : \A i \in 1..n : p[i] < i}
Kinds == {"none", "dest", "action", "both"}
NodeTitle == <<"a", "b", "c", "d", "e", "f">>

Kids(n, p, x) == {i \in 1..n : p[i] = x}
MinOf(S) == CHOOSE m \in S : \A k \in S : m <= k
MaxOf(S) == CHOOSE m \in S : \A k \in S : k <= m

RECURSIVE Visible(_, _, _, _)
\* The number of descendants of x that an open x shows.
Visible(n, p, closed, x) ==
    LET RECURSIVE Sum(_)
        Sum(S) == IF S = {} THEN 0
                  ELSE LET c == MinOf(S)
                       IN 1 + (IF c \in closed THEN 0
                               ELSE Visible(n, p, closed, c))
                          + Sum(S \ {c})
    IN Sum(Kids(n, p, x))

PutIf(o, cond, f, v) == IF cond THEN Put(o, f, v) ELSE o

NodeLinks(n, p, closed, x, o) ==
    LET kids == Kids(n, p, x)
        vis == Visible(n, p, closed, x)
    IN PutIf(PutIf(PutIf(o, kids # {}, "First", MinOf(kids)),
                   kids # {}, "Last", MaxOf(kids)),
             kids # {}, "Count", IF x \in closed THEN 0 - vis ELSE vis)

NodeDict(n, p, kind, closed, ttype, i) ==
    LET before == {j \in Kids(n, p, p[i]) : j < i}
        after == {j \in Kids(n, p, p[i]) : j > i}
        o1 == [Title |-> [type |-> ttype, text |-> NodeTitle[i]], Parent |-> p[i]]
        o2 == PutIf(o1, kind[i] \in {"dest", "both"}, "Dest", <<ObjTag, i>>)
        o3 == PutIf(o2, kind[i] \in {"action", "both"}, "A", <<ActTag, i>>)
        o4 == PutIf(o3, before # {}, "Prev", MaxOf(before))
        o5 == PutIf(o4, after # {}, "Next", MinOf(after))
    IN NodeLinks(n, p, closed, i, o5)

DocOf(n, p, kind, closed, ttype) ==
    [x \in 0..n |-> IF x = Outlines
                     THEN NodeLinks(n, p, {}, Outlines, [Type |-> "Outlines"])
                     ELSE NodeDict(n, p, kind, closed, ttype, x)]

\* A document damaged in one pointer: field f of object x refers to node t.
Redirect(d, x, f, t) == [d EXCEPT ![x] = Put(@, f, t)]

\* ------------------------------------------------------------------- state
\* A call's outcome as the caller sees it: the exception it raised (NoErr:
\* it returned), and for a save whether it repeats the save before it.
Did(op, err) == [op |-> op, err |-> err, again |-> FALSE]

VARIABLES
    doc,        \* the Pdf: object identity -> dictionary
    items,      \* the heap of OutlineItem instances
    root,       \* Outline._root: [loaded |-> FALSE] is None
    strict,     \* Outline._strict
    max_depth,  \* Outline._max_depth
    updating,   \* Outline._updating
    session,    \* the caller's place: "none", or "body" inside a with block
    last,       \* the last call's outcome: [op, err]
    held,       \* the caller has been handed the root list
    partial,    \* _load raised after assigning self._root
    log,        \* the writes of the last save, in order
    before,     \* the document as the last save found it
    entered,    \* the document as the running (or last) session found it
    flushes,    \* _save calls made by the running (or last) session's exit
    trip,       \* the round trip in progress: [phase, tree]
    edits, saves, opened

vars == <<doc, items, root, strict, max_depth, updating, session, last, held,
          partial, log, before, entered, flushes, trip, edits, saves, opened>>

cfg == [strict |-> strict, max_depth |-> max_depth]

Depths == {1, 2}

\* What the items of a list are, as values: title, destination, action,
\* is_closed and children, recursively.
RECURSIVE ItemTree(_, _)
ItemTree(its, list) ==
    [k \in 1..Len(list) |->
        [title |-> its[list[k]].title,
         destination |-> its[list[k]].destination,
         action |-> its[list[k]].action,
         is_closed |-> its[list[k]].is_closed,
         children |-> ItemTree(its, its[list[k]].children)]]

Range(q) == {q[k] : k \in 1..Len(q)}

RECURSIVE Reach(_, _)
\* The items a caller holding the list can get at.
Reach(its, list) ==
    Range(list) \cup UNION {Reach(its, its[i].children) : i \in Range(list)}

Fresh(d, st, md) ==
    /\ doc = d
    /\ items = <<>>
    /\ root = [loaded |-> FALSE, list |-> <<>>]
    /\ strict = st
    /\ max_depth = md
    /\ updating = FALSE
    /\ session = "none"
    /\ last = Did("init", NoErr)
    /\ held = FALSE
    /\ partial = FALSE
    /\ log = <<>>
    /\ before = d
    /\ entered = d
    /\ flushes = 0
    /\ trip = [phase |-> "start", tree |-> <<>>, doc |-> d]
    /\ edits = 0
    /\ saves = 0
    /\ opened = 1

\* Outline(pdf, max_depth, strict) on a well-formed document; its first node
\* holds an action beside its destination.
Init ==
    \E n \in 0..MaxNodes : \E p \in Parents(n) : \E st \in BOOLEAN :
        Fresh(DocOf(n, p, [i \in 1..n |-> IF i = 1 THEN "both" ELSE "dest"],
                    {}, "String"), st, 1)

\* ----------------------------------------------------------------- actions
Void == [phase |-> "void", tree |-> <<>>, doc |-> doc]

\* The root property (lines 317-321), with _load on the first access.  Once
\* the caller holds the list a further access changes nothing.
Root ==
    /\ ~held
    /\ IF root.loaded
       THEN /\ held' = TRUE
            /\ last' = Did("root", NoErr)
            /\ UNCHANGED <<items, root, partial, trip>>
       ELSE LET r == load(cfg, doc, items)
                ok == r.s.err = NoErr
            IN /\ root' = [loaded |-> TRUE, list |-> r.list]
               /\ items' = r.s.items
               /\ partial' = ~ok
               /\ held' = ok
               /\ last' = Did("root", r.s.err)
               /\ trip' = IF ok /\ trip.phase = "start"
                          THEN [phase |-> "loaded",
                                tree |-> ItemTree(r.s.items, r.list),
                                doc |-> doc]
                          ELSE IF ok /\ trip.phase = "fresh"
                          THEN [trip EXCEPT !.phase = "reloaded"]
                          ELSE Void
    /\ UNCHANGED <<doc, strict, max_depth, updating, session, log, before,
                   entered, flushes, edits, saves, opened>>

\* Outline._save (lines 297-306) and what it leaves behind.  exc is the
\* exception already on its way to the caller, NoErr for none: what the
\* caller gets is that exception, or else the one _save raises.
Saving(op, exc) ==
    LET s == IF root.loaded THEN save(cfg, doc, items, root.list)
             ELSE Walk(doc, items)
    IN /\ doc' = s.doc
       /\ items' = s.items
       /\ log' = s.log
       /\ before' = doc
       /\ saves' = IF root.loaded THEN saves + 1 ELSE saves
       /\ trip' = IF s.err = NoErr /\ trip.phase \in {"loaded", "saved"}
                  THEN [trip EXCEPT !.phase = "saved"]
                  ELSE IF trip.phase = "start" THEN trip ELSE Void
       /\ last' = [op |-> op,
                   err |-> IF exc # NoErr THEN exc ELSE s.err,
                   again |-> last.op \in {"save", "exit"} /\ last.err = NoErr
                             /\ root.loaded]

Save ==
    /\ session = "none"
    /\ saves < MaxSaves
    /\ Saving("save", NoErr)
    /\ UNCHANGED <<root, strict, max_depth, updating, session, held, partial,
                   entered, flushes, edits, opened>>

\* Outline.__enter__
Enter ==
    /\ session = "none"
    /\ saves < MaxSaves
    /\ updating' = TRUE
    /\ session' = "body"
    /\ entered' = doc
    /\ flushes' = 0
    /\ last' = Did("enter", NoErr)
    /\ UNCHANGED <<doc, items, root, strict, max_depth, held, partial, log,
                   before, trip, edits, saves, opened>>

\* An exit that saves whatever the body did.
ExitAlwaysSaves(exc_type) ==
    /\ session = "body"
    /\ Saving("exit", exc_type)
    /\ flushes' = flushes + 1
    /\ updating' = FALSE
    /\ session' = "none"
    /\ UNCHANGED <<root, strict, max_depth, held, partial, entered, edits,
                   opened>>

\* Outline.__exit__(exc_type, ...): exc_type is NoErr for None.  It returns
\* None, so an exception of the body goes on to the caller.
Exit(exc_type) ==
    /\ session = "body"
    /\ IF exc_type # NoErr
       THEN /\ last' = Did("exit", exc_type)
            /\ UNCHANGED <<doc, items, log, before, saves, trip, flushes>>
       ELSE /\ Saving("exit", exc_type)
            /\ flushes' = flushes + 1
    /\ updating' = FALSE
    /\ session' = "none"
    /\ UNCHANGED <<root, strict, max_depth, held, partial, entered, edits,
                   opened>>

\* Outline(pdf, max_depth, strict) once more, with the same arguments, on
\* the document as it is now.
NewOutline ==
    /\ session = "none"
    /\ root.loaded
    /\ opened < MaxOutlines
    /\ opened' = opened + 1
    /\ items' = <<>>
    /\ root' = [loaded |-> FALSE, list |-> <<>>]
    /\ UNCHANGED <<strict, max_depth>>
    /\ updating' = FALSE
    /\ held' = FALSE
    /\ partial' = FALSE
    /\ last' = Did("init", NoErr)
    /\ trip' = IF trip.phase = "saved" THEN [trip EXCEPT !.phase = "fresh"]
               ELSE Void
    /\ UNCHANGED <<doc, session, log, before, entered, flushes, edits, saves>>

\* ------------------------------------------------------- the caller's edits
\* owner 0 is the root list, owner i > 0 the children of item i.
ListOf(owner) == IF owner = 0 THEN root.list ELSE items[owner].children

Edited(its, rootList) ==
    /\ held
    /\ edits < MaxEdits
    /\ edits' = edits + 1
    /\ items' = its
    /\ root' = [root EXCEPT !.list = rootList]
    /\ last' = Did("edit", NoErr)
    /\ trip' = Void
    /\ UNCHANGED <<doc, strict, max_depth, updating, session, held, partial,
                   log, before, entered, flushes, saves, opened>>

SetList(owner, list) ==
    IF owner = 0 THEN Edited(items, list)
    ELSE Edited([items EXCEPT ![owner].children = list], root.list)

Accessible == IF held THEN Reach(items, root.list) ELSE {}

SetTitle(i, t) ==
    /\ items[i].title # t
    /\ Edited([items EXCEPT ![i].title = t], root.list)

SetDestination(i, v) ==
    /\ items[i].destination # v
    /\ Edited([items EXCEPT ![i].destination = v], root.list)

SetAction(i, v) ==
    /\ items[i].action # v
    /\ Edited([items EXCEPT ![i].action = v], root.list)

SetClosed(i, b) ==
    /\ items[i].is_closed # b
    /\ Edited([items EXCEPT ![i].is_closed = b], root.list)

\* list.append(item) of an item the caller already holds; an item is not put
\* under itself or under one of its descendants.
AppendItem(owner, i) ==
    /\ owner \notin {i} \cup Reach(items, items[i].children)
    /\ SetList(owner, Append(ListOf(owner), i))

\* list.append(OutlineItem(...)) of a new item
AppendNew(owner, it) ==
    LET its == Append(items, it)
    IN IF owner = 0 THEN Edited(its, Append(root.list, Len(its)))
       ELSE Edited([its EXCEPT ![owner].children = Append(@, Len(its))],
                   root.list)

\* del list[k]
Remove(owner, k) ==
    LET list == ListOf(owner)
    IN SetList(owner, [j \in 1..(Len(list) - 1) |->
                          IF j < k THEN list[j] ELSE list[j + 1]])

Titles == {"x"}
NewDestinations == {None, <<IntTag, 0>>}
NewActions == {None, <<ActTag, 0>>}
\* The objects a caller can name: those of the items it holds.
KnownObjs == {items[i].obj : i \in Accessible} \ {NoObj}
\* OutlineItem(...) as a caller builds it, and
\* OutlineItem.from_dictionary_object(obj) of an object it holds.
NewItems ==
    {OutlineItem("x", None, NoLocation, None, NoObj, EmptyDict),
     OutlineItem("x", <<IntTag, 0>>, XYZ, None, NoObj, [top |-> 5])}
    \cup {from_dictionary_object(doc[o], o) : o \in KnownObjs}

Edit ==
    \/ \E i \in Accessible : \E t \in Titles : SetTitle(i, t)
    \/ \E i \in Accessible : \E v \in NewDestinations : SetDestination(i, v)
    \/ \E i \in Accessible : \E v \in NewActions : SetAction(i, v)
    \/ \E i \in Accessible : \E b \in BOOLEAN : SetClosed(i, b)
    \/ \E owner \in {0} \cup Accessible : \E i \in Accessible : AppendItem(owner, i)
    \/ \E owner \in {0} \cup Accessible : \E it \in NewItems : AppendNew(owner, it)
    \/ \E owner \in {0} \cup Accessible : \E k \in 1..Len(ListOf(owner)) :
          held /\ Remove(owner, k)

Next == Root \/ Save \/ Edit

Spec == Init /\ [][Next]_vars

\* ------------------------------------------------- loading damaged documents
\* Outline(pdf, max_depth, strict) on a document that is well-formed but for
\* at most one pointer, which leads to some node again.
InitLoad ==
    \E n \in 1..MaxNodes : \E p \in Parents(n) : \E cl \in {{}, 1..n} :
    \E st \in BOOLEAN : \E md \in Depths :
    LET d == DocOf(n, p, [i \in 1..n |-> "dest"], cl, "String")
    IN \/ Fresh(d, st, md)
       \/ \E x \in 0..n : \E f \in {"Next", "First"} : \E t \in 1..n :
             Fresh(Redirect(d, x, f, t), st, md)

NextLoad ==
    \/ Root
    \/ NewOutline

SpecLoad == InitLoad /\ [][NextLoad]_vars

\* ------------------------------------------------------- load, save, reload
\* Outline(pdf, max_depth, strict) on any well-formed document: the first
\* node holds one choice of Dest and A, the others another.
InitTrip ==
    \E n \in 0..MaxNodes : \E p \in Parents(n) : \E k1 \in Kinds : \E k2 \in Kinds :
    \E cl \in {{}, 1..n} : \E tt \in {"String", "Name"} :
    \E st \in BOOLEAN : \E md \in Depths :
        Fresh(DocOf(n, p, [i \in 1..n |-> IF i = 1 THEN k1 ELSE k2], cl, tt),
              st, md)

NextTrip ==
    \/ Root
    \/ Save
    \/ NewOutline

SpecTrip == InitTrip /\ [][NextTrip]_vars

\* -------------------------------------------------- the scoped edit session
\* The caller retitles an item of the root list, or appends it once more.
SessionEdit ==
    \/ \E i \in Range(root.list) : \E t \in Titles : SetTitle(i, t)
    \/ \E i \in Range(root.list) : AppendItem(0, i)

NextSession ==
    \/ Root
    \/ SessionEdit
    \/ Enter
    \/ \E exc_type \in {NoErr, "Exception"} : Exit(exc_type)

SpecSession == Init /\ [][NextSession]_vars

\* =================================================================== claims
\* The object field f of the object of item i refers to.
Ref(i, f) == GetRef(doc[items[i].obj], f)

\* The last item _load made while it filled the list (owner: the item that
\* holds the list, 0 for the root list): items are made in visiting order.
LastMade(owner, list) ==
    IF list = <<>> THEN owner ELSE MaxOf(Reach(items, list))

\* The list holds the sibling chain that starts at first, in order, up to the
\* end of the chain or to the first object _load had visited by then.
ChainLoaded(owner, list, first) ==
    /\ \A k \in 1..Len(list) :
          items[list[k]].obj = IF k = 1 THEN first ELSE Ref(list[k - 1], "Next")
    /\ LET stop == IF list = <<>> THEN first ELSE Ref(list[Len(list)], "Next")
       IN \/ stop = NoObj
          \/ \E j \in 1..LastMade(owner, list) : items[j].obj = stop

RECURSIVE TreeLoaded(_, _, _, _)
TreeLoaded(owner, list, first, level) ==
    /\ ChainLoaded(owner, list, first)
    /\ \A k \in 1..Len(list) :
          IF level < max_depth
          THEN TreeLoaded(list[k], items[list[k]].children,
                          Ref(list[k], "First"), level + 1)
          ELSE items[list[k]].children = <<>>

\* C3: a lax load returns without an error on every document, cyclic or not;
\* no object identity gives two OutlineItems; and every list of the loaded
\* tree is its sibling chain cut at the first object already visited, the
\* siblings before it kept.
C3_LaxLoadTruncates ==
    (last.op = "root" /\ ~strict) =>
        /\ last.err = NoErr
        /\ root.loaded /\ held
        /\ \A i, j \in 1..Len(items) : i # j => items[i].obj # items[j].obj
        /\ TreeLoaded(0, root.list, GetRef(doc[Outlines], "First"), 0)

\* C3 witness: a lax load kept two root siblings and stopped at the Next of
\* the second, which leads back to a visited node.
C3_Witness ==
    /\ last.op = "root" /\ ~strict /\ last.err = NoErr
    /\ Len(root.list) >= 2
    /\ Ref(root.list[Len(root.list)], "Next") # NoObj

\* C4: under strict mode no access to root that returns hands out a list that
\* a failed load left behind.
C4_StrictNeverPartial ==
    (strict /\ last.op = "root" /\ last.err = NoErr) => ~partial

\* The document the round trip started from has no repeated object identity
\* (a strict load of any depth succeeds) and no node below max_depth (a load
\* of any depth finds what the first load found).
Deep == [strict |-> TRUE, max_depth |-> max_depth + MaxNodes]
TripCovered ==
    LET r == load(Deep, trip.doc, <<>>)
    IN r.s.err = NoErr /\ ItemTree(r.s.items, r.list) = trip.tree

RECURSIVE ActionIgnored(_)
\* The tree with the action of every item that has a destination taken away:
\* to_dictionary_object writes Dest and deletes A.
ActionIgnored(tree) ==
    [k \in 1..Len(tree) |->
        [tree[k] EXCEPT !.action = IF tree[k].destination # None THEN None ELSE @,
                        !.children = ActionIgnored(@)]]

\* C1 as claimed: load, save, load again gives the first load's tree, equal
\* on title, destination, action and is_closed, recursively.
C1_RoundTripExact ==
    (trip.phase = "reloaded" /\ TripCovered) =>
        ItemTree(items, root.list) = trip.tree

\* C1 amended: load, save, load again gives the first load's tree, equal on
\* title, destination and is_closed, recursively, and on action for every
\* item without a destination; an item loaded with both comes back without
\* its action.
C1_RoundTrip ==
    (trip.phase = "reloaded" /\ TripCovered) =>
        ItemTree(items, root.list) = ActionIgnored(trip.tree)

\* C1 witness: a round trip is complete for a closed item that was loaded
\* with a destination and an action, over a child that has an action only.
C1_Witness ==
    /\ trip.phase = "reloaded" /\ TripCovered
    /\ Len(trip.tree) >= 1
    /\ trip.tree[1].is_closed
    /\ trip.tree[1].destination # None /\ trip.tree[1].action # None
    /\ Len(trip.tree[1].children) >= 1
    /\ trip.tree[1].children[1].destination = None
    /\ trip.tree[1].children[1].action # None

\* ------------------------------------------------------------- the session
\* The items of the root list are written to their objects.
RootFlushed ==
    \A k \in 1..Len(root.list) :
        LET it == items[root.list[k]]
        IN /\ it.obj \in DOMAIN doc
           /\ Has(doc[it.obj], "Title")
           /\ doc[it.obj].Title = TitleObj(it.title)

\* C5: inside a session the updating flag is set and nothing is written; an
\* exit after a clean body has saved exactly once and the root items are in
\* the document; an exit after a failed body has not saved, the document is
\* the one the session was entered with and the body's error is the
\* caller's; after every exit, one whose save raised included, the updating
\* flag is false.
C5_ScopedSession ==
    /\ session = "body" => updating /\ doc = entered /\ flushes = 0
    /\ session = "none" => ~updating
    /\ last.op = "exit" =>
          /\ session = "none" /\ ~updating
          /\ last.err = "Exception" => flushes = 0 /\ doc = entered
          /\ last.err # "Exception" => flushes = 1
          /\ (last.err = NoErr /\ root.loaded) => RootFlushed

\* C5 witness: a session whose body made an edit has exited cleanly and the
\* document is no longer the one it was entered with.
C5_Witness ==
    /\ last.op = "exit" /\ last.err = NoErr
    /\ flushes = 1 /\ ~updating
    /\ doc # entered

\* ----------------------------------------------------- what a save leaves
Saved == last.op = "save" /\ last.err = NoErr /\ root.loaded
Level(e) == Len(e.path) - 1
\* The object written for the item at path, and the writes under path.
ObjAt(path) == (CHOOSE e \in Range(log) : e.path = path).obj
WrittenUnder(path) ==
    {e \in Range(log) : /\ Len(e.path) = Len(path) + 1
                        /\ SubSeq(e.path, 1, Len(path)) = path}

RECURSIVE VisibleIn(_, _, _)
RECURSIVE VisibleUnder(_, _)
\* The written items of list, from the k-th on, with their visible written
\* descendants; list is at level.
VisibleIn(list, k, level) ==
    IF k > Len(list) THEN 0
    ELSE 1 + (IF items[list[k]].is_closed THEN 0 ELSE VisibleUnder(list[k], level))
           + VisibleIn(list, k + 1, level)
\* The visible written descendants of item i, which is at level.
VisibleUnder(i, level) ==
    IF level < max_depth THEN VisibleIn(items[i].children, 1, level + 1) ELSE 0

\* C2: after a save every written item's Count is the number of its visible
\* written descendants, negated when the item is closed, and the container's
\* Count is the number of written items whose ancestors are all open.
C2_CountEncoding ==
    Saved =>
        /\ doc[Outlines].Count = VisibleIn(root.list, 1, 0)
        /\ \A e \in Range(log) :
              /\ Has(doc[e.obj], "Count")
              /\ doc[e.obj].Count =
                    IF items[e.item].is_closed
                    THEN 0 - VisibleUnder(e.item, Level(e))
                    ELSE VisibleUnder(e.item, Level(e))

\* C6: a save that follows a save with no edit in between leaves the
\* document as it found it.
C6_SaveIdempotent ==
    (Saved /\ last.again) => doc = before

RECURSIVE PathsIn(_, _, _)
\* The positions of the items of list and below, down to level max_depth.
PathsIn(list, path, level) ==
    IF level > max_depth THEN {}
    ELSE UNION {{Append(path, k)}
                \cup PathsIn(items[list[k]].children, Append(path, k), level + 1)
                : k \in 1..Len(list)}

RECURSIVE DepthOf(_)
DepthOf(tree) ==
    IF tree = <<>> THEN 0
    ELSE 1 + MaxOf({DepthOf(tree[k].children) : k \in 1..Len(tree)})

\* C7: a save writes exactly the items at levels 0..max_depth, an item at
\* level max_depth is written without First and Last and with Count 0, a
\* later load of any depth finds no item below level max_depth, and a lax
\* save raises nothing.
C7_DepthLimit ==
    (last.op = "save" /\ root.loaded) =>
        /\ ~strict => last.err = NoErr
        /\ last.err = NoErr =>
              /\ {e.path : e \in Range(log)} = PathsIn(root.list, <<>>, 0)
              /\ \A e \in Range(log) : Level(e) = max_depth =>
                    /\ ~Has(doc[e.obj], "First") /\ ~Has(doc[e.obj], "Last")
                    /\ Has(doc[e.obj], "Count") /\ doc[e.obj].Count = 0
              /\ LET r == load([strict |-> FALSE,
                                max_depth |-> max_depth + MaxNodes + MaxEdits],
                               doc, <<>>)
                 IN DepthOf(ItemTree(r.s.items, r.list)) <= max_depth + 1

\* The objects written for the items under path are linked under parent, in
\* their order.
LinkedUnder(parent, path) ==
    LET n == Cardinality(WrittenUnder(path))
        o(k) == ObjAt(Append(path, k))
    IN IF n = 0
       THEN ~Has(doc[parent], "First") /\ ~Has(doc[parent], "Last")
       ELSE /\ GetRef(doc[parent], "First") = o(1)
            /\ GetRef(doc[parent], "Last") = o(n)
            /\ \A k \in 1..n :
                  /\ GetRef(doc[o(k)], "Parent") = parent
                  /\ GetRef(doc[o(k)], "Prev") = IF k = 1 THEN NoObj ELSE o(k - 1)
                  /\ GetRef(doc[o(k)], "Next") = IF k = n THEN NoObj ELSE o(k + 1)
                  /\ \A j \in 1..n : j # k => o(j) # o(k)

\* C8: after a save that raised nothing, the container and every written
\* item have First and Last on the first and last of their written children,
\* whose Parent, Prev and Next chain them in order, or neither First nor Last
\* when there are none.
C8_WellLinked ==
    Saved =>
        /\ LinkedUnder(Outlines, <<>>)
        /\ \A e \in Range(log) : LinkedUnder(e.obj, e.path)

\* The Title, Dest and A that writing item it leaves in object o.
HoldsFieldsOf(o, it) ==
    /\ Has(o, "Title") /\ o.Title = TitleObj(it.title)
    /\ it.destination # None =>
          Has(o, "Dest") /\ o.Dest = it.destination /\ ~Has(o, "A")
    /\ (it.destination = None /\ it.action # None) =>
          Has(o, "A") /\ o.A = it.action /\ ~Has(o, "Dest")

\* C9: when a lax save comes to an item whose object an earlier item of the
\* same save was written to, the item gets an object allocated for it, and
\* the earlier object keeps the Title, Dest and A of the item first written
\* to it.
C9_DuplicateRepair ==
    (Saved /\ ~strict) =>
        \A k \in 1..Len(log) :
            LET earlier == {j \in 1..(k - 1) : log[j].obj = log[k].tried}
            IN earlier # {} =>
                  /\ log[k].obj \notin DOMAIN before
                  /\ \A j \in 1..(k - 1) : log[j].obj # log[k].obj
                  /\ HoldsFieldsOf(doc[log[k].tried],
                                   items[log[MinOf(earlier)].item])

\* C10: no object a save wrote an item to holds both Dest and A.
C10_DestOrAction ==
    last.op = "save" =>
        \A e \in Range(log) : ~(Has(doc[e.obj], "Dest") /\ Has(doc[e.obj], "A"))

====
